---- MODULE Spec2Model ----
(***************************************************************************)
(* A model of the meditation pipeline of mindful-affirmations:             *)
(*   - the script composer of the Home page (handleGenerate and            *)
(*     generateStructuredMeditation),                                      *)
(*   - the voice resolver (getVoiceId),                                    *)
(*   - the server's audio generation route with its two timers, the audio  *)
(*     directory chosen at start-up and the asset serving middleware,      *)
(*   - the client's AudioPlayer component (its effects and callbacks).     *)
(* Every component has its own next-state relation and specification; all  *)
(* of them share the variables below.                                      *)
(***************************************************************************)
EXTENDS Integers, Sequences, FiniteSets, TLC

VARIABLES
    \* ---- script composer (client, Home.handleGenerate)
    scPc,             \* "idle" | "composed"
    scPurpose,        \* generatedMeditation.purpose
    scRepetition,     \* generatedMeditation.repetitionCount (0: not set)
    scAffirmations,   \* affirmationsText ("" when nothing was selected or typed)
    scPause,          \* generatedMeditation.pauseDuration, in seconds
    scRandom,         \* the values Math.random() yields, as section indices
    meditationScript, \* the array joined into the script, as a sequence of segments
    \* ---- voice resolver (server, services/voiceMapping)
    vrStyle,          \* the voiceStyle getVoiceId was called with
    vrResult,         \* what it returned ("unset" before the first call)
    vrExact,          \* the exactVoiceURI the request carried ("" for none)
    \* ---- background music resolvers (services/musicLibrary, BackgroundMusic)
    muId,             \* the music id the resolvers are called with
    muServer,         \* what getMusicUrl of the library returned
    muHowl,           \* the src of the Howl the component created
    \* ---- pause insertion (server, routes.ts addPausesToText)
    ptText,           \* the script the request carries, as a sequence of characters
    ptConfigured,     \* the pauseDuration the user configured for the meditation
    ptKnown,          \* the id names a stored record (else a timestamp id)
    ptOut,            \* the text sent to the provider, once sent
    \* ---- the page (Home.handleGenerate): the request for premium audio
    isGenerating,     \* state: the generating flag
    hgPc,             \* idle | delay | fetching | reading | done
    \* ---- server (routes.ts): the process, its file system, the provider
    srvUp,            \* the module's start-up code has run
    primaryAvailable, \* /mnt/data can be created and written (the environment)
    dirs,             \* the storage roots that exist
    files,            \* the files under the roots: <<root, name>> -> content
    apiKey,           \* process.env.ELEVENLABS_API_KEY
    now,              \* the wall clock, in milliseconds
    store,            \* storage: meditation id -> its audioUrl
    reqs,             \* the generate-audio requests: handler, generation, fetch
    served,           \* the answer of the last GET /api/audio/<name>
    \* ---- client (AudioPlayer.tsx): props, state, refs, and the browser
    mounted,             \* the component is on the page
    meditation,          \* prop: the meditation (NullMeditation for null)
    isPlaying,           \* prop: the parent's playing flag
    showPostMoodCheckIn, \* parent state set by onMeditationComplete
    staleCompletions,    \* completions reported for a session already left
    audioReady,          \* state
    generationStatus,    \* state: 'pending' | 'generating' | 'ready' | 'failed'
    duration,            \* state: the estimated duration
    progress,            \* state: the progress bar
    speechSynthRef,      \* ref: the source the player holds
    progressTimerRef,    \* ref: the progress interval
    bgMusicRef,          \* ref: the music element
    effects,             \* the dependencies and cleanups React keeps per effect
    audios,              \* the premium audio elements created so far
    speechSynthesis,     \* window.speechSynthesis
    fadeOut              \* the live fade-out intervals

scriptVars ==
    <<scPc, scPurpose, scRepetition, scAffirmations, scPause, scRandom, meditationScript>>
voiceVars == <<vrStyle, vrResult, vrExact>>
musicVars == <<muId, muServer, muHowl>>
pauseVars == <<ptText, ptConfigured, ptKnown, ptOut>>
homeVars == <<isGenerating, hgPc>>
serverVars == <<srvUp, primaryAvailable, dirs, files, apiKey, now, store, reqs, served>>
playerVars ==
    <<mounted, meditation, isPlaying, showPostMoodCheckIn, staleCompletions,
      audioReady, generationStatus, duration, progress, speechSynthRef,
      progressTimerRef, bgMusicRef, effects, audios, speechSynthesis, fadeOut>>
vars == <<scriptVars, voiceVars, musicVars, pauseVars, homeVars, serverVars, playerVars>>

(***************************************************************************)
(* Script composer                                                         *)
(***************************************************************************)

\* The slider of the preview tab lets the user choose 1..MaxRepetition.
MaxRepetition == 20

\* The purposes with a template family of their own; every other purpose
\* takes the default family.
KnownPurposes == {"sleep", "morning", "focus", "confidence", "stress"}
Purposes == KnownPurposes \cup {"meeting"}

Family(purpose) == IF purpose \in KnownPurposes THEN purpose ELSE "default"

\* A segment of the script: one string literal of the templates, or the
\* user's affirmation text. Two segments are equal iff they are the same text.
Seg(kind, family, idx) == [kind |-> kind, family |-> family, idx |-> idx]

\* generateStructuredMeditation: the template family of a purpose. The four
\* breathing exercises are common to all purposes; the intro, the three
\* visualizations, the four affirmation sections and the ending are the
\* purpose's own.
generateStructuredMeditation(purpose) ==
    LET f == Family(purpose) IN
    [ scriptIntro          |-> Seg("intro", f, 1),
      breathingExercises   |-> [k \in 1..4 |-> Seg("breathing", "common", k)],
      visualizationContent |-> [k \in 1..3 |-> Seg("visualization", f, k)],
      affirmationSections  |-> [k \in 1..4 |-> Seg("affirmationSection", f, k)],
      scriptEnding         |-> Seg("ending", f, 1) ]

\* The narration pushed between two repetitions ("Take three deep breaths...").
PauseNarration == Seg("pauseNarration", "common", 1)

\* What the pause narration counts aloud: three breaths of four in, four held
\* and six out. The text is a literal; no value of the form enters it.
PauseNarrationCounts == 3 * (4 + 4 + 6)

\* The pause between repetitions the form offers: the schema's default, and a
\* longer one of the slider.
DefaultPause == 2
PauseInputs == {DefaultPause, 5}

\* The user's affirmations, joined with '. ' into one string.
AffirmationText(text) == Seg("affirmationsText", text, 0)

\* Boolean(x) of a segment: only the empty affirmation text is falsy.
Truthy(seg) == ~(seg.kind = "affirmationsText" /\ seg.family = "")

\* repetitionCount || 3
EffectiveRepetition(rep) == IF rep = 0 THEN 3 ELSE rep

\* One pass of the loop `for (i = 0; i < repetitionCount; i++)`: a randomly
\* chosen affirmation section, then the affirmations (when there are any),
\* then the pause narration except after the last repetition.
LoopBody(i, rep, text, sections, rnd) ==
    <<sections[rnd[i + 1]]>>
    \o (IF text # ""
        THEN <<AffirmationText(text)>>
             \o (IF i < rep - 1 THEN <<PauseNarration>> ELSE <<>>)
        ELSE <<>>)

RECURSIVE RepeatLoop(_, _, _, _, _)
RepeatLoopOffByOne(i, rep, text, sections, rnd) ==
    IF i <= rep /\ i < Len(rnd)
    THEN LoopBody(i, rep, text, sections, rnd) \o RepeatLoop(i + 1, rep, text, sections, rnd)
    ELSE <<>>
RepeatLoop(i, rep, text, sections, rnd) ==
    IF i < rep
    THEN LoopBody(i, rep, text, sections, rnd) \o RepeatLoop(i + 1, rep, text, sections, rnd)
    ELSE <<>>

\* handleGenerate, lines 774-814: the middle sections (breathing once,
\* visualization once, the repeated affirmation block) between the intro and
\* the ending, with the falsy entries filtered out.
ComposeScript(purpose, repetitionCount, text, rnd) ==
    LET g   == generateStructuredMeditation(purpose)
        rep == EffectiveRepetition(repetitionCount)
        middleSections ==
            g.breathingExercises \o g.visualizationContent
            \o RepeatLoop(0, rep, text, g.affirmationSections, rnd)
    IN SelectSeq(<<g.scriptIntro>> \o middleSections \o <<g.scriptEnding>>, Truthy)

\* Math.random() over a run of handleGenerate, as the section index of every
\* repetition: the streams start + k * stride (mod 4), which hold the constant
\* streams (the same section every time) and the streams that rotate.
RandomStream(start, stride) ==
    [k \in 1..(MaxRepetition + 1) |-> ((start + (k - 1) * stride) % 4) + 1]

AffirmationInputs == {"", "I am calm", "I am calm. I am safe"}

\* handleGenerate composes the script of the meditation the form handed over
\* (its purpose, repetition count and affirmations are the form's values).
HandleGenerateCompose ==
    /\ scPc = "idle"
    /\ meditationScript' = ComposeScript(scPurpose, scRepetition, scAffirmations, scRandom)
    /\ scPc' = "composed"
    /\ UNCHANGED <<scPurpose, scRepetition, scAffirmations, scPause, scRandom>>
    /\ UNCHANGED <<voiceVars, musicVars, pauseVars, homeVars, serverVars, playerVars>>

(***************************************************************************)
(* Voice resolver                                                          *)
(***************************************************************************)

\* A string is the sequence of its characters, so that `includes` and the
\* lookup of a key are decided on the text itself.
\* voiceIdMapping: the table from voice style to provider voice id.
voiceIdMapping ==
    { <<<<"c", "a", "l", "m", "-", "f", "e", "m", "a", "l", "e">>, "EXAVITQu4vr4xnSDxMaL">>,
      <<<<"w", "h", "i", "s", "p", "e", "r", "-", "f", "e", "m", "a", "l", "e">>, "XB0fDUnXU5powFXDhCwa">>,
      <<<<"m", "o", "t", "i", "v", "a", "t", "i", "o", "n", "a", "l", "-", "f", "e", "m", "a", "l", "e">>, "9BWtsMINqrJLrRacOk9x">>,
      <<<<"c", "a", "l", "m", "-", "m", "a", "l", "e">>, "JBFqnCBsd6RMkjVDRZzb">>,
      <<<<"w", "h", "i", "s", "p", "e", "r", "-", "m", "a", "l", "e">>, "TX3LPaxmHKxFdv7VOQHJ">>,
      <<<<"m", "o", "t", "i", "v", "a", "t", "i", "o", "n", "a", "l", "-", "m", "a", "l", "e">>, "nPczCjzI2devNBz1zQrb">>,
      <<<<"f", "r", "i", "e", "n", "d", "l", "y", "-", "w", "i", "z", "a", "r", "d">>, "iP95p4xoKVk53GoZ742B">>,
      <<<<"f", "a", "i", "r", "y", "-", "g", "o", "d", "m", "o", "t", "h", "e", "r">>, "pFZP5JQG7iQjIQuC4Bku">>,
      <<<<"s", "u", "p", "e", "r", "h", "e", "r", "o">>, "onwK4e9ZLuTAKqWW03F9">>,
      <<<<"n", "e", "u", "t", "r", "a", "l">>, "SAz9YHcvj6GT2YYXdXww">>,
      <<<<"y", "o", "u", "n", "g", "-", "f", "e", "m", "a", "l", "e">>, "Xb7hH8MSUJpSbSDYk0k2">>,
      <<<<"m", "a", "t", "u", "r", "e", "-", "f", "e", "m", "a", "l", "e">>, "cgSgspJ2msm6clMCkdW9">>,
      <<<<"m", "a", "t", "u", "r", "e", "-", "m", "a", "l", "e">>, "bIHbv24MWmeRgasZH58o">>,
      <<<<"d", "e", "f", "a", "u", "l", "t">>, "JBFqnCBsd6RMkjVDRZzb">> }

\* The keys the table holds itself.
OwnKeys == {e[1] : e \in voiceIdMapping}

\* voiceIdMapping is an object literal: `key in voiceIdMapping` and
\* `voiceIdMapping[key]` also see the members it inherits from
\* Object.prototype, which are functions (or, for __proto__, an object).
ObjectPrototypeKeys ==
    { <<"c", "o", "n", "s", "t", "r", "u", "c", "t", "o", "r">>,
      <<"t", "o", "S", "t", "r", "i", "n", "g">>,
      <<"v", "a", "l", "u", "e", "O", "f">>,
      <<"h", "a", "s", "O", "w", "n", "P", "r", "o", "p", "e", "r", "t", "y">>,
      <<"i", "s", "P", "r", "o", "t", "o", "t", "y", "p", "e", "O", "f">>,
      <<"p", "r", "o", "p", "e", "r", "t", "y", "I", "s", "E", "n", "u", "m", "e", "r", "a", "b", "l", "e">>,
      <<"t", "o", "L", "o", "c", "a", "l", "e", "S", "t", "r", "i", "n", "g">>,
      <<"_", "_", "p", "r", "o", "t", "o", "_", "_">> }

\* What reading an inherited member yields: not a string at all.
InheritedMember == "[Object.prototype member]"

\* key in voiceIdMapping
HasKey(key) == key \in OwnKeys \cup ObjectPrototypeKeys

\* voiceIdMapping[key], for a key the object has
Lookup(key) ==
    IF key \in OwnKeys
    THEN (CHOOSE e \in voiceIdMapping : e[1] = key)[2]
    ELSE InheritedMember

\* The ids of the table: the valid provider voice ids.
ValidVoiceIds == {e[2] : e \in voiceIdMapping}

\* s.includes(sub)
Includes(s, sub) ==
    \E i \in 1..(Len(s) - Len(sub) + 1) : SubSeq(s, i, i + Len(sub) - 1) = sub
Str_female == <<"f", "e", "m", "a", "l", "e">>
Str_male == <<"m", "a", "l", "e">>
Str_calm == <<"c", "a", "l", "m">>
Str_whisper == <<"w", "h", "i", "s", "p", "e", "r">>
Str_motivational == <<"m", "o", "t", "i", "v", "a", "t", "i", "o", "n", "a", "l">>
Key_calm_female == <<"c", "a", "l", "m", "-", "f", "e", "m", "a", "l", "e">>
Key_whisper_female == <<"w", "h", "i", "s", "p", "e", "r", "-", "f", "e", "m", "a", "l", "e">>
Key_motivational_female == <<"m", "o", "t", "i", "v", "a", "t", "i", "o", "n", "a", "l", "-", "f", "e", "m", "a", "l", "e">>
Key_calm_male == <<"c", "a", "l", "m", "-", "m", "a", "l", "e">>
Key_whisper_male == <<"w", "h", "i", "s", "p", "e", "r", "-", "m", "a", "l", "e">>
Key_motivational_male == <<"m", "o", "t", "i", "v", "a", "t", "i", "o", "n", "a", "l", "-", "m", "a", "l", "e">>
Key_default == <<"d", "e", "f", "a", "u", "l", "t">>

\* getVoiceId: the exact match, then the substring heuristic, then the default.
getVoiceId(voiceStyle) ==
    IF HasKey(voiceStyle) THEN Lookup(voiceStyle)
    ELSE IF Includes(voiceStyle, Str_female) THEN
        IF Includes(voiceStyle, Str_calm) THEN Lookup(Key_calm_female)
        ELSE IF Includes(voiceStyle, Str_whisper) THEN Lookup(Key_whisper_female)
        ELSE IF Includes(voiceStyle, Str_motivational) THEN Lookup(Key_motivational_female)
        ELSE Lookup(Key_calm_female)
    ELSE IF Includes(voiceStyle, Str_male) THEN
        IF Includes(voiceStyle, Str_calm) THEN Lookup(Key_calm_male)
        ELSE IF Includes(voiceStyle, Str_whisper) THEN Lookup(Key_whisper_male)
        ELSE IF Includes(voiceStyle, Str_motivational) THEN Lookup(Key_motivational_male)
        ELSE Lookup(Key_calm_male)
    ELSE Lookup(Key_default)

\* The voice styles the resolver is tried on: every text of up to
\* MaxStyleWords words of the vocabulary (the words of the table's keys and of
\* the heuristic, and two member names of Object.prototype).
MaxStyleWords == 3
StyleWords ==
    { <<"c", "a", "l", "m">>,
      <<"w", "h", "i", "s", "p", "e", "r">>,
      <<"m", "o", "t", "i", "v", "a", "t", "i", "o", "n", "a", "l">>,
      <<"f", "e", "m", "a", "l", "e">>,
      <<"m", "a", "l", "e">>,
      <<"-">>,
      <<"y", "o", "u", "n", "g">>,
      <<"m", "a", "t", "u", "r", "e">>,
      <<"n", "e", "u", "t", "r", "a", "l">>,
      <<"d", "e", "f", "a", "u", "l", "t">>,
      <<"c", "o", "n", "s", "t", "r", "u", "c", "t", "o", "r">>,
      <<"t", "o", "S", "t", "r", "i", "n", "g">> }

RECURSIVE Concat(_)
Concat(ws) == IF ws = <<>> THEN <<>> ELSE Head(ws) \o Concat(Tail(ws))

StyleInputs ==
    UNION { {Concat(ws) : ws \in [1..n -> StyleWords]} : n \in 1..MaxStyleWords }

\* The exact voices a request may name: none, an id of the table, and a
\* voice of the browser that the table does not hold.
ExactInputs == {"", "XB0fDUnXU5powFXDhCwa", "Google US English"}

\* The voice generateTextToSpeechAudio sends to the provider: the id resolved
\* from the style; an exact voice carried by the request is only logged.
selectVoice(voiceStyle, exactVoiceURI) == getVoiceId(voiceStyle)

\* A call getVoiceId(voiceStyle), as generateTextToSpeechAudio makes it.
GetVoiceIdCall ==
    /\ vrResult = "unset"
    /\ vrResult' = selectVoice(vrStyle, vrExact)
    /\ UNCHANGED <<vrStyle, vrExact>>
    /\ UNCHANGED <<scriptVars, musicVars, pauseVars, homeVars, serverVars, playerVars>>

(***************************************************************************)
(* Background music resolvers                                              *)
(***************************************************************************)

\* musicLibrary of the server: music type -> public URL (the URLs by the
\* name of their file).
musicLibrary ==
    { <<"nature-sounds", "mixkit-forest-stream-ambience-loop-1231.mp3">>,
      <<"rain", "mixkit-light-rain-loopable-ambience-1249.mp3">>,
      <<"ocean", "mixkit-beach-waves-loop-1200.mp3">>,
      <<"forest", "mixkit-morning-forest-birds-loop-1252.mp3">>,
      <<"gentle-piano", "mixkit-serenity-s-call-124.mp3">>,
      <<"ambient", "mixkit-tech-house-vibes-130.mp3">>,
      <<"singing-bowls", "mixkit-meditation-light-383.mp3">>,
      <<"deep-relaxation", "mixkit-comforting-piano-beat-548.mp3">>,
      <<"healing", "mixkit-tranquil-garden-light-background-225.mp3">>,
      <<"delta-waves", "mixkit-dreaming-big-31.mp3">>,
      <<"theta-waves", "mixkit-cave-water-droplets-background-1240.mp3">>,
      <<"alpha-waves", "mixkit-ambient-piano-sleep-loop-1754.mp3">>,
      <<"432hz", "mixkit-serene-view-443.mp3">>,
      <<"528hz", "mixkit-relaxing-in-nature-522.mp3">>,
      <<"639hz", "mixkit-a-very-happy-christmas-897.mp3">>,
      <<"741hz", "mixkit-valley-sunset-127.mp3">>,
      <<"852hz", "mixkit-life-is-a-dream-837.mp3">>,
      <<"963hz", "mixkit-space-planet-2167.mp3">>,
      <<"binaural-theta", "mixkit-feeling-happy-5.mp3">>,
      <<"binaural-alpha", "mixkit-cool-feel-2882.mp3">>,
      <<"binaural-delta", "mixkit-sleepy-cat-135.mp3">> }

\* musicUrls of the BackgroundMusic component.
musicUrls ==
    { <<"gentle-piano", "example.com/audio/gentle-piano.mp3">>,
      <<"nature-sounds", "example.com/audio/nature-sounds.mp3">>,
      <<"ambient", "example.com/audio/ambient.mp3">>,
      <<"singing-bowls", "example.com/audio/singing-bowls.mp3">>,
      <<"rain", "example.com/audio/rain.mp3">> }

\* The names every object literal inherits from Object.prototype.
PrototypeNames ==
    {"constructor", "toString", "valueOf", "hasOwnProperty", "isPrototypeOf",
     "propertyIsEnumerable", "toLocaleString", "__proto__"}

\* table[key]: the own entry, an inherited member (truthy, not a string),
\* or undefined.
Member(table, key) ==
    IF \E e \in table : e[1] = key
    THEN (CHOOSE e \in table : e[1] = key)[2]
    ELSE IF key \in PrototypeNames THEN InheritedMember
    ELSE "undefined"

\* a || b for the values above: undefined and "" are falsy.
OrElse(a, b) == IF a \in {"undefined", ""} THEN b ELSE a

\* getMusicUrl of services/musicLibrary
getMusicUrl(musicType) ==
    OrElse(Member(musicLibrary, musicType), Member(musicLibrary, "gentle-piano"))

\* getMusicUrl of the BackgroundMusic component
componentMusicUrl(musicId) == OrElse(Member(musicUrls, musicId), "")

\* The effect of BackgroundMusic on [music]: nothing for "none", a Howl over
\* the resolved url otherwise.
NoHowl == "no Howl"
backgroundMusicEffect(music) ==
    IF music = "none" THEN NoHowl ELSE componentMusicUrl(music)

\* The music ids of the form (schema musicOptions), known to the tables or
\* not, the empty id, an id no table knows, and inherited names.
MusicIds ==
    {e[1] : e \in musicLibrary} \cup {"none", "", "ocean-waves", "whale-song"}
        \cup PrototypeNames

\* A call getMusicUrl(muId) of the server's library.
GetMusicUrlCall ==
    /\ muServer = "unset"
    /\ muServer' = getMusicUrl(muId)
    /\ UNCHANGED <<muId, muHowl>>
    /\ UNCHANGED <<scriptVars, voiceVars, pauseVars, homeVars, serverVars, playerVars>>

\* BackgroundMusic is mounted with music = muId.
BackgroundMusicMount ==
    /\ muHowl = "unset"
    /\ muHowl' = backgroundMusicEffect(muId)
    /\ UNCHANGED <<muId, muServer>>
    /\ UNCHANGED <<scriptVars, voiceVars, pauseVars, homeVars, serverVars, playerVars>>

(***************************************************************************)
(* Server: start-up, the generate-audio route, the asset middleware        *)
(***************************************************************************)

\* setTimeout(() => controller.abort(), 60000) in generateTextToSpeechAudio
FetchAbortMs == 60000
\* setTimeout(() => reject(new Error("ElevenLabs API timeout")), 120000)
RaceTimeoutMs == 120000

\* The clock advances in steps of the shorter timeout, up to MaxTicks steps.
TickMs == FetchAbortMs
MaxTicks == 3
\* The generate-audio requests of a run.
MaxReq == 1
\* The times a client repeats an answered request.
MaxRepeats == 1
Reqs == 1..MaxReq

NoTimer == 0 - 1

\* const AUDIO_DIR = '/mnt/data/audio': the primary (persistent) root. It is
\* a constant: nothing assigns it after the module is loaded.
AUDIO_DIR == "primary"
\* path.join(process.cwd(), 'public', 'audio'): the workspace root.
FallbackDir == "fallback"

\* A file the deployment ships in public/audio (a music loop).
BundledName == "gentle-piano.mp3"

\* The names generateTextToSpeechAudio derives from Date.now().
AudioName(timestamp) == "meditation-" \o ToString(timestamp) \o ".mp3"
LogName(timestamp) == "request-" \o ToString(timestamp) \o ".json"

\* The audio the provider may return.
Bytes == {"mp3-A", "mp3-B"}

\* The module's start-up code: AUDIO_DIR is created when it is missing; when
\* that throws, the workspace directory is created instead. AUDIO_DIR itself
\* stays what it was.
DirsAfterStartup ==
    IF AUDIO_DIR \in dirs THEN dirs
    ELSE IF primaryAvailable THEN dirs \cup {AUDIO_DIR}
    ELSE dirs \cup {FallbackDir}

Startup ==
    /\ ~srvUp
    /\ srvUp' = TRUE
    /\ dirs' = DirsAfterStartup
    /\ UNCHANGED <<primaryAvailable, files, apiKey, now, store, reqs, served>>
    /\ UNCHANGED <<scriptVars, voiceVars, musicVars, pauseVars, homeVars, playerVars>>

\* The root the files of a generation are written under (path.join(AUDIO_DIR, ...)).
OutputRoot == AUDIO_DIR

\* fs.writeFileSync / fs.appendFileSync succeed iff the directory exists.
CanWrite(root) == root \in dirs
WriteFile(fs, root, name, content) ==
    [k \in (DOMAIN fs) \cup {<<root, name>>} |->
        IF k = <<root, name>> THEN content ELSE fs[k]]

\* A request that has not arrived.
NoReq ==
    [ pc         |-> "idle",     \* idle | rejected | racing | finished
      status     |-> 0,          \* the HTTP status written
      chunks     |-> <<>>,       \* the JSON bodies written to the response
      medId      |-> 0,          \* the stored meditation's id
      foundUrl   |-> "none",     \* meditation.audioUrl of the record looked up
      repeats    |-> 0,          \* the times the client has asked again
      acceptedAt |-> NoTimer,
      finishedAt |-> NoTimer,
      settledBy  |-> "none",     \* what settled Promise.race: generation | timeout
      audioUrl   |-> "none",     \* the route's `audioUrl`: the name of the asset
      raceTimer  |-> NoTimer,    \* the deadline of the race's timeout
      gen        |-> "none",     \* generateTextToSpeechAudio: none | importing |
                                 \*   fetching | readingBody | readingError |
                                 \*   resolved | failed
      cause      |-> "none",     \* why it failed
      timestamp  |-> NoTimer,    \* Date.now() of line 73
      outputRoot |-> "none",     \* the root of outputPath
      abortTimer |-> NoTimer,    \* the deadline of the abort timer
      net        |-> "none",     \* the provider request: none | inflight |
                                 \*   headers | complete | aborted | error
      netCalls   |-> 0,          \* the requests sent to the provider
      bytes      |-> "none" ]    \* the audio received

\* !process.env.ELEVENLABS_API_KEY: the key is absent or the empty string.
KeyFalsyNever(key) == FALSE
KeyFalsy(key) == key \in {"absent", "empty"}
\* !apiKey || apiKey.trim() === ''
KeyBlank(key) == key \in {"absent", "empty", "blank"}

\* The deadline of the race's timeout, set when the request is accepted.
RaceDeadlineNever(acceptedAt) == acceptedAt + RaceTimeoutMs + (MaxTicks + 1) * TickMs
RaceDeadline(acceptedAt) == acceptedAt + RaceTimeoutMs

\* The route after `await Promise.race`: the first of the two promises to
\* settle decides; a failure writes the "fallback" chunk; then the record is
\* updated when there is an audio URL, "complete" is written and the response
\* ends. A promise that settles after the race is ignored.
SettleUnlessTimeout(rec, by, url) ==
    IF rec.pc # "racing" \/ by = "timeout" THEN rec
    ELSE [rec EXCEPT
            !.pc = "finished",
            !.settledBy = by,
            !.audioUrl = url,
            !.chunks = rec.chunks
                       \o (IF url = "none" THEN <<"fallback">> ELSE <<>>)
                       \o <<"complete">>,
            !.finishedAt = now]
SettleHardError(rec, by, url) ==
    IF rec.pc # "racing" THEN rec
    ELSE IF url = "none"
    THEN [rec EXCEPT !.pc = "finished", !.settledBy = by, !.status = 500,
                     !.finishedAt = now]
    ELSE [rec EXCEPT
            !.pc = "finished",
            !.settledBy = by,
            !.audioUrl = url,
            !.chunks = rec.chunks \o <<"complete">>,
            !.finishedAt = now]
Settle(rec, by, url) ==
    IF rec.pc # "racing" THEN rec
    ELSE [rec EXCEPT
            !.pc = "finished",
            !.settledBy = by,
            !.audioUrl = url,
            !.chunks = rec.chunks
                       \o (IF url = "none" THEN <<"fallback">> ELSE <<>>)
                       \o <<"complete">>,
            !.finishedAt = now]

\* storage.setMeditationAudioUrl(meditation.id, audioUrl), when the race was
\* won by a generation that returned a URL.
StoreAfterLate(rec, url) ==
    IF url # "none" /\ rec.medId \in DOMAIN store
    THEN [store EXCEPT ![rec.medId] = url]
    ELSE store
StoreAfter(rec, url) ==
    IF rec.pc = "racing" /\ url # "none" /\ rec.medId \in DOMAIN store
    THEN [store EXCEPT ![rec.medId] = url]
    ELSE store

\* generateTextToSpeechAudio throws: the promise of the generation rejects.
GenFailsRetrying(rec, cause) ==
    IF cause = "provider"
    THEN [rec EXCEPT !.gen = "importing", !.net = "none"]
    ELSE Settle([rec EXCEPT !.gen = "failed", !.cause = cause],
                "generation", "none")
GenFails(rec, cause) ==
    Settle([rec EXCEPT !.gen = "failed", !.cause = cause],
           "generation", "none")

\* POST /api/meditations/generate-audio arrives. Missing fields: 400. The id
\* is looked up; an unknown id is a 404 unless it is timestamp-like, for which
\* a placeholder meditation is created. Then 202 and the "processing" chunk
\* are written, the timeout of the race is armed and
\* generateTextToSpeechAudio starts: it throws at once when the key is
\* absent or empty, and awaits the import of the voice mapping otherwise.
\* Requests arrive while the clock of the run leaves room for their timeout.
Arrive(r) ==
    /\ srvUp
    /\ reqs[r].pc = "idle"
    /\ now + RaceTimeoutMs <= MaxTicks * TickMs
    /\ \A q \in Reqs : q < r => reqs[q].pc # "idle"
    /\ \E kind \in {"missingFields", "unknownId", "knownId", "timestampId"} :
         LET newId == Cardinality(DOMAIN store) + 1
             medId == IF kind = "timestampId" THEN newId ELSE 1
             accepted == [reqs[r] EXCEPT
                            !.pc = "racing", !.status = 202,
                            !.chunks = <<"processing">>,
                            !.medId = medId,
                            !.foundUrl = IF kind = "timestampId" THEN "none"
                                         ELSE store[medId],
                            !.acceptedAt = now,
                            !.raceTimer = RaceDeadline(now)]
         IN CASE kind = "missingFields" ->
                   /\ reqs' = [reqs EXCEPT ![r] = [@ EXCEPT !.pc = "rejected", !.status = 400]]
                   /\ UNCHANGED store
              [] kind = "unknownId" ->
                   /\ reqs' = [reqs EXCEPT ![r] = [@ EXCEPT !.pc = "rejected", !.status = 404]]
                   /\ UNCHANGED store
              [] OTHER ->
                   /\ store' = IF kind = "timestampId"
                               THEN [k \in (DOMAIN store) \cup {newId} |->
                                        IF k = newId THEN "none" ELSE store[k]]
                               ELSE store
                   /\ reqs' = [reqs EXCEPT ![r] =
                                 IF KeyFalsy(apiKey)
                                 THEN GenFails(accepted, "credential")
                                 ELSE [accepted EXCEPT !.gen = "importing"]]
    /\ UNCHANGED <<srvUp, primaryAvailable, dirs, files, apiKey, now, served>>
    /\ UNCHANGED <<scriptVars, voiceVars, musicVars, pauseVars, homeVars, playerVars>>

\* generateTextToSpeechAudio after the import: the second check of the key,
\* the names from Date.now(), the request log written under AUDIO_DIR (which
\* throws when the directory does not exist), the abort timer, the POST.
GenRequest(r) ==
    /\ reqs[r].gen = "importing"
    /\ IF KeyBlank(apiKey)
       THEN /\ reqs' = [reqs EXCEPT ![r] = GenFails(@, "credential")]
            /\ UNCHANGED files
       ELSE IF ~CanWrite(OutputRoot)
       THEN /\ reqs' = [reqs EXCEPT ![r] =
                         GenFails([@ EXCEPT !.timestamp = now, !.outputRoot = OutputRoot],
                                  "storage")]
            /\ UNCHANGED files
       ELSE /\ files' = WriteFile(files, OutputRoot, LogName(now), "log")
            /\ reqs' = [reqs EXCEPT ![r] =
                         [@ EXCEPT !.timestamp = now,
                                   !.outputRoot = OutputRoot,
                                   !.abortTimer = now + FetchAbortMs,
                                   !.gen = "fetching",
                                   !.net = "inflight",
                                   !.netCalls = @ + 1]]
    /\ store' = StoreAfter(reqs[r], "none")
    /\ UNCHANGED <<srvUp, primaryAvailable, dirs, apiKey, now, served>>
    /\ UNCHANGED <<scriptVars, voiceVars, musicVars, pauseVars, homeVars, playerVars>>

\* The provider answers with its status line and headers: fetch resolves, the
\* abort timer is cleared, and the body is awaited (the audio of a 2xx
\* answer, the error text of any other).
ProviderResponds(r) ==
    /\ reqs[r].net = "inflight"
    /\ \E ok \in BOOLEAN :
         reqs' = [reqs EXCEPT ![r] =
                    [@ EXCEPT !.net = "headers",
                              !.abortTimer = NoTimer,
                              !.gen = IF ok THEN "readingBody" ELSE "readingError"]]
    /\ UNCHANGED <<srvUp, primaryAvailable, dirs, files, apiKey, now, store, served>>
    /\ UNCHANGED <<scriptVars, voiceVars, musicVars, pauseVars, homeVars, playerVars>>

\* The body has arrived. The audio is written to outputPath and verified to
\* exist, and the URL is returned; an error text makes the generation throw.
ProviderBody(r) ==
    /\ reqs[r].net = "headers"
    /\ IF reqs[r].gen = "readingError"
       THEN /\ reqs' = [reqs EXCEPT ![r] = GenFails([@ EXCEPT !.net = "complete"], "provider")]
            /\ UNCHANGED <<files, store>>
       ELSE \E b \in Bytes :
            LET rec  == [reqs[r] EXCEPT !.net = "complete", !.bytes = b]
                name == AudioName(rec.timestamp)
            IN IF CanWrite(rec.outputRoot)
               THEN /\ files' = WriteFile(files, rec.outputRoot, name, b)
                    /\ reqs' = [reqs EXCEPT ![r] =
                                 Settle([rec EXCEPT !.gen = "resolved"],
                                        "generation", name)]
                    /\ store' = StoreAfter(rec, name)
               ELSE /\ reqs' = [reqs EXCEPT ![r] = GenFails(rec, "storage")]
                    /\ UNCHANGED <<files, store>>
    /\ UNCHANGED <<srvUp, primaryAvailable, dirs, apiKey, now, served>>
    /\ UNCHANGED <<scriptVars, voiceVars, musicVars, pauseVars, homeVars, playerVars>>

\* The connection fails, before the headers (fetch rejects) or while the body
\* is read: the generation throws. The abort timer is cleared only after a
\* fetch that resolved.
NetworkError(r) ==
    /\ reqs[r].net \in {"inflight", "headers"}
    /\ reqs' = [reqs EXCEPT ![r] = GenFails([@ EXCEPT !.net = "error"], "network")]
    /\ UNCHANGED <<srvUp, primaryAvailable, dirs, files, apiKey, now, store, served>>
    /\ UNCHANGED <<scriptVars, voiceVars, musicVars, pauseVars, homeVars, playerVars>>

\* The abort timer fires: controller.abort() ends a fetch that still waits
\* for the headers, and the generation throws.
AbortTimerFires(r) ==
    /\ reqs[r].abortTimer # NoTimer
    /\ now >= reqs[r].abortTimer
    /\ reqs' = [reqs EXCEPT ![r] =
                 IF @.net = "inflight"
                 THEN GenFails([@ EXCEPT !.net = "aborted", !.abortTimer = NoTimer], "abort")
                 ELSE [@ EXCEPT !.abortTimer = NoTimer]]
    /\ UNCHANGED <<srvUp, primaryAvailable, dirs, files, apiKey, now, store, served>>
    /\ UNCHANGED <<scriptVars, voiceVars, musicVars, pauseVars, homeVars, playerVars>>

\* The client asks again once its request was answered and its generation
\* has ended: the same body for the same meditation. The timers the answered
\* request left armed fire without effect and are no longer followed.
Again(r) ==
    /\ reqs[r].pc = "finished"
    /\ reqs[r].gen \in {"resolved", "failed"}
    /\ reqs[r].repeats < MaxRepeats
    /\ reqs' = [reqs EXCEPT ![r] = [NoReq EXCEPT !.repeats = reqs[r].repeats + 1]]
    /\ UNCHANGED <<srvUp, primaryAvailable, dirs, files, apiKey, now, store, served>>
    /\ UNCHANGED <<scriptVars, voiceVars, musicVars, pauseVars, homeVars, playerVars>>

\* The timeout of the race fires: timeoutPromise rejects. Nothing aborts the
\* generation; its promise is merely no longer awaited.
RaceTimeoutFires(r) ==
    /\ reqs[r].raceTimer # NoTimer
    /\ now >= reqs[r].raceTimer
    /\ reqs' = [reqs EXCEPT ![r] = Settle([@ EXCEPT !.raceTimer = NoTimer], "timeout", "none")]
    /\ UNCHANGED <<srvUp, primaryAvailable, dirs, files, apiKey, now, store, served>>
    /\ UNCHANGED <<scriptVars, voiceVars, musicVars, pauseVars, homeVars, playerVars>>

\* Time passes. A timer fires when it is due: the clock does not pass the
\* deadline of a pending timer.
TimerDue(deadline) == deadline # NoTimer /\ deadline <= now
Tick ==
    /\ srvUp
    /\ now < MaxTicks * TickMs
    /\ \A r \in Reqs : ~TimerDue(reqs[r].abortTimer) /\ ~TimerDue(reqs[r].raceTimer)
    /\ now' = now + TickMs
    /\ UNCHANGED <<srvUp, primaryAvailable, dirs, files, apiKey, store, reqs, served>>
    /\ UNCHANGED <<scriptVars, voiceVars, musicVars, pauseVars, homeVars, playerVars>>

\* The /api/audio middleware: the file under AUDIO_DIR when it exists there,
\* else the file under the workspace root, else next(): express.static over
\* the workspace root, which finds nothing either, and the request is not
\* answered by this router.
Resolve(name) ==
    IF <<AUDIO_DIR, name>> \in DOMAIN files
    THEN [status |-> 200, root |-> AUDIO_DIR, body |-> files[<<AUDIO_DIR, name>>]]
    ELSE IF <<FallbackDir, name>> \in DOMAIN files
    THEN [status |-> 200, root |-> FallbackDir, body |-> files[<<FallbackDir, name>>]]
    ELSE [status |-> 404, root |-> "none", body |-> "none"]

NotServed == [status |-> 0, root |-> "none", body |-> "none"]

\* GET /api/audio/<name>, for a name of a stored file or a name never written.
ServeAudio ==
    /\ srvUp
    /\ \E name \in {k[2] : k \in DOMAIN files} \cup {AudioName(NoTimer)} :
         served' = Resolve(name)
    /\ UNCHANGED <<srvUp, primaryAvailable, dirs, files, apiKey, now, store, reqs>>
    /\ UNCHANGED <<scriptVars, voiceVars, musicVars, pauseVars, homeVars, playerVars>>

(***************************************************************************)
(* Client: the AudioPlayer component, its effects and its callbacks        *)
(***************************************************************************)

\* How many meditations the parent hands to the player, one after the other.
MaxVer == 2
\* How many premium audio elements the player may create.
MaxAudio == 2
\* How many utterances the speech engine may hold.
MaxQueue == 2
\* How many ticks of the progress interval reach 100 percent.
MaxProgress == 2

\* bgMusicRef.current.volume = 0.3, in hundredths.
DefaultVolume == 30
\* The fade-out lowers the volume by 0.02 while it is above 0.02.
FadeStep == 2
\* meditation.musicVolume of the meditations handed to the player (0..100).
MusicVolumes == {4}
\* The estimated durations of the meditations, in seconds.
Estimates == {300, 600}

\* meditation = null
NullMeditation ==
    [ver |-> 0, meditationScript |-> FALSE, audioUrl |-> "none",
     backgroundMusic |-> "none", musicVolume |-> 0, estimate |-> 0]

IsNull(m) == m.ver = 0

\* The meditation objects the parent may pass; ver tells the objects apart.
\* audioUrl is absent ("none"), a URL under /api/audio/ ("premium"), or any
\* other non-empty URL ("other", such as the /audio/<file> of
\* services/elevenlabs).
Meditations(ver) ==
    [ver : {ver}, meditationScript : BOOLEAN, audioUrl : {"none", "premium", "other"},
     backgroundMusic : {"none", "rain"}, musicVolume : MusicVolumes,
     estimate : Estimates]

\* meditation.audioUrl && meditation.audioUrl.includes('/api/audio/')
IsPremium(m) == m.audioUrl = "premium"

NullRef == [kind |-> "null", id |-> 0]
NullInterval == [live |-> FALSE, ver |-> 0, ticks |-> 0]
NoMusic == [exists |-> FALSE, src |-> "", playing |-> FALSE, volume |-> 0]

\* musicLibrary[meditation.backgroundMusic] || musicLibrary['gentle-piano']
MusicLibraryUrl(music) ==
    IF music = "rain" THEN "mixkit:light-rain" ELSE "mixkit:serenity-s-call"

\* simpleMusicMap[musicType] || simpleMusicMap['gentle-piano']
SimpleMusicUrl(music) ==
    IF music = "rain" THEN "/audio/nature-sounds.mp3" ELSE "/audio/gentle-piano.mp3"

\* Math.min(1, Math.max(0, meditation.musicVolume / 100)), in hundredths
ClampVolume(v) == IF v > 100 THEN 100 ELSE IF v < 0 THEN 0 ELSE v

\* The player as one record, for the operators below.
Cur ==
    [mounted |-> mounted, meditation |-> meditation, isPlaying |-> isPlaying,
     showPostMoodCheckIn |-> showPostMoodCheckIn,
     staleCompletions |-> staleCompletions,
     audioReady |-> audioReady, generationStatus |-> generationStatus,
     duration |-> duration, progress |-> progress,
     speechSynthRef |-> speechSynthRef, progressTimerRef |-> progressTimerRef,
     bgMusicRef |-> bgMusicRef, effects |-> effects, audios |-> audios,
     speechSynthesis |-> speechSynthesis, fadeOut |-> fadeOut]

Apply(s) ==
    /\ mounted' = s.mounted
    /\ meditation' = s.meditation
    /\ isPlaying' = s.isPlaying
    /\ showPostMoodCheckIn' = s.showPostMoodCheckIn
    /\ staleCompletions' = s.staleCompletions
    /\ audioReady' = s.audioReady
    /\ generationStatus' = s.generationStatus
    /\ duration' = s.duration
    /\ progress' = s.progress
    /\ speechSynthRef' = s.speechSynthRef
    /\ progressTimerRef' = s.progressTimerRef
    /\ bgMusicRef' = s.bgMusicRef
    /\ effects' = s.effects
    /\ audios' = s.audios
    /\ speechSynthesis' = s.speechSynthesis
    /\ fadeOut' = s.fadeOut

\* The bounds of the model: an action that would exceed them is not taken.
Fits(s) ==
    /\ Len(s.audios) <= MaxAudio
    /\ Len(s.speechSynthesis.queue) <= MaxQueue
    /\ s.fadeOut <= 1

\* window.speechSynthesis.speaking: an utterance is spoken or queued.
Speaking(s) == s.speechSynthesis.queue # <<>>

\* window.speechSynthesis.cancel(): empties the queue; the paused state of
\* the engine is not changed by it.
Cancel(s) == [s EXCEPT !.speechSynthesis.queue = <<>>]

\* if (speechSynthRef.current) { speechSynthesis.cancel(); ref = null }
CancelIfRef(s) ==
    IF s.speechSynthRef.kind # "null"
    THEN [Cancel(s) EXCEPT !.speechSynthRef = NullRef]
    ELSE s

\* if (progressTimerRef.current) { clearInterval(...); ref = null }
ClearProgressTimer(s) == [s EXCEPT !.progressTimerRef = NullInterval]

\* A source made for meditation ver belongs to a session the user has left.
Abandoned(s, ver) == ~s.mounted \/ s.meditation.ver # ver

\* onMeditationComplete(): the parent's setShowPostMoodCheckIn(true)
onMeditationComplete(s, ver) ==
    [s EXCEPT !.showPostMoodCheckIn = TRUE,
              !.staleCompletions = IF Abandoned(s, ver) THEN 1 ELSE @]

\* startSpeechSynthesis, its first part: the music element gets the
\* self-hosted url, the meditation's volume, and is played.
startBackgroundMusic(s, m) ==
    IF s.bgMusicRef.exists
    THEN [s EXCEPT !.bgMusicRef =
             [exists |-> TRUE, src |-> SimpleMusicUrl(m.backgroundMusic),
              playing |-> TRUE, volume |-> ClampVolume(m.musicVolume)]]
    ELSE s

\* setVoiceAndSpeak: the utterance becomes the referenced source and is
\* handed to the engine.
setVoiceAndSpeak(s, m) ==
    [s EXCEPT !.speechSynthRef = [kind |-> "utterance", id |-> m.ver],
              !.speechSynthesis.queue = Append(@, m.ver)]

\* startSpeechSynthesis of the effect run that saw meditation m.
startSpeechSynthesis(s, m) ==
    LET a == startBackgroundMusic(s, m)
    IN  IF Speaking(a) /\ a.speechSynthRef.kind # "null"
        THEN [a EXCEPT !.speechSynthesis.paused = FALSE]
        ELSE LET b == IF a.speechSynthesis.voices
                      THEN setVoiceAndSpeak(a, m)
                      ELSE [a EXCEPT !.speechSynthesis.onvoiceschanged = m]
             IN  [b EXCEPT !.progressTimerRef =
                               [live |-> TRUE, ver |-> m.ver, ticks |-> 0]]

\* audioElement.onerror of the element made for meditation m
audioOnError(s, m) == startSpeechSynthesis(s, m)

\* The effect on [meditation]: initialise when the meditation changes.
meditationEffect(s) ==
    LET m == s.meditation
    IN  IF IsNull(m)
        THEN [s EXCEPT !.generationStatus = "pending", !.audioReady = FALSE,
                       !.effects.medCleanup = FALSE]
        ELSE LET a == CancelIfRef(s)
                 ready == IsPremium(m) \/ m.meditationScript
             IN  [a EXCEPT !.progress = 0,
                           !.audioReady = ready,
                           !.generationStatus = IF ready THEN "ready" ELSE "pending",
                           !.duration = m.estimate,
                           !.effects.medCleanup = TRUE]

meditationEffectCleanup(s) == ClearProgressTimer(CancelIfRef(s))

\* The effect on [isGenerating, meditation]; the parent does not pass
\* isGenerating, which is then false.
generationEffect(s) ==
    LET m == s.meditation
    IN  IF m.meditationScript \/ m.audioUrl # "none"
        THEN [s EXCEPT !.generationStatus = "ready", !.audioReady = TRUE]
        ELSE s

\* The effect on [meditation] that sets up the music element.
musicEffect(s) ==
    LET m == s.meditation
    IN  IF IsNull(m)
        THEN [s EXCEPT !.effects.musicCleanup = FALSE]
        ELSE LET el == IF s.bgMusicRef.exists THEN s.bgMusicRef
                       ELSE [exists |-> TRUE, src |-> "", playing |-> FALSE,
                             volume |-> DefaultVolume]
                 set == IF m.backgroundMusic # "none"
                        THEN [el EXCEPT !.src = MusicLibraryUrl(m.backgroundMusic),
                                        !.playing = FALSE,
                                        !.volume = ClampVolume(m.musicVolume)]
                        ELSE el
             IN  [s EXCEPT !.bgMusicRef = set, !.effects.musicCleanup = TRUE]

musicEffectCleanup(s) ==
    IF s.bgMusicRef.exists
    THEN [s EXCEPT !.bgMusicRef.playing = FALSE, !.bgMusicRef.src = ""]
    ELSE s

\* The effect on [isPlaying, meditation, duration, setIsPlaying]; r is the
\* render it belongs to (the state values its closure sees).
playEffect(s, r) ==
    LET m == r.meditation
    IN  IF IsNull(m) \/ ~m.meditationScript
        THEN [s EXCEPT !.effects.playCleanup = FALSE]
        ELSE IF ~r.audioReady \/ r.generationStatus # "ready"
        THEN [s EXCEPT !.effects.playCleanup = FALSE]
        ELSE IF r.isPlaying
        THEN IF IsPremium(m)
             THEN [s EXCEPT !.audios = Append(@, [med |-> m, state |-> "loading"]),
                            !.speechSynthRef =
                                [kind |-> "audio", id |-> Len(s.audios) + 1],
                            !.effects.playCleanup = FALSE]
             ELSE [startSpeechSynthesis(s, m) EXCEPT !.effects.playCleanup = TRUE]
        ELSE LET a == IF Speaking(s)
                      THEN [s EXCEPT !.speechSynthesis.paused = TRUE]
                      ELSE s
             IN  [ClearProgressTimer(a) EXCEPT !.effects.playCleanup = TRUE]

playEffectCleanup(s) == CancelIfRef(ClearProgressTimer(s))

PlayDeps(s) == <<s.isPlaying, s.meditation, s.duration>>

\* One render and its effects: the cleanups of the effects whose
\* dependencies changed, then their bodies, in the order of declaration.
Commit1(r) ==
    LET medChanged == r.meditation # r.effects.medDeps
        playChanged == PlayDeps(r) # r.effects.playDeps
        c1 == IF medChanged /\ r.effects.medCleanup
              THEN meditationEffectCleanup(r) ELSE r
        c2 == IF medChanged /\ r.effects.musicCleanup
              THEN musicEffectCleanup(c1) ELSE c1
        c3 == IF playChanged /\ r.effects.playCleanup
              THEN playEffectCleanup(c2) ELSE c2
        b1 == IF medChanged THEN meditationEffect(c3) ELSE c3
        b2 == IF medChanged THEN generationEffect(b1) ELSE b1
        b3 == IF medChanged THEN musicEffect(b2) ELSE b2
        b4 == IF playChanged THEN playEffect(b3, r) ELSE b3
    IN  [b4 EXCEPT !.effects.medDeps = r.meditation,
                   !.effects.playDeps = PlayDeps(r)]

\* The state set by the effects renders again; the second render can only
\* run the play effect anew (its dependency duration), which sets no state.
Commit(s) == Commit1(Commit1(s))

\* Handlers run in a mounted component are followed by its render.
Rendered(s) == IF s.mounted THEN Commit(s) ELSE s

\* ---- the user and the parent page

\* togglePlayPause, the click on the play button
togglePlayPause(s) ==
    IF ~s.audioReady \/ s.generationStatus # "ready"
    THEN s
    ELSE Rendered([s EXCEPT !.isPlaying = ~s.isPlaying])

TogglePlayPause ==
    /\ mounted
    /\ ~IsNull(meditation)
    /\ Fits(togglePlayPause(Cur))
    /\ Apply(togglePlayPause(Cur))
    /\ UNCHANGED <<scriptVars, voiceVars, musicVars, pauseVars, homeVars, serverVars>>

\* The parent's setMeditation: the first meditation, or a regenerated one.
SetMeditation ==
    /\ mounted
    /\ meditation.ver < MaxVer
    /\ \E m \in Meditations(meditation.ver + 1) :
          LET s == Rendered([Cur EXCEPT !.meditation = m])
          IN  Fits(s) /\ Apply(s)
    /\ UNCHANGED <<scriptVars, voiceVars, musicVars, pauseVars, homeVars, serverVars>>

\* The player leaves the page: every effect's cleanup runs.
unmount(s) ==
    LET c1 == IF s.effects.medCleanup THEN meditationEffectCleanup(s) ELSE s
        c2 == IF s.effects.musicCleanup THEN musicEffectCleanup(c1) ELSE c1
        c3 == IF s.effects.playCleanup THEN playEffectCleanup(c2) ELSE c2
    IN  [c3 EXCEPT !.mounted = FALSE,
                   !.audioReady = FALSE, !.generationStatus = "pending",
                   !.duration = 0, !.progress = 0,
                   !.effects.medCleanup = FALSE, !.effects.musicCleanup = FALSE,
                   !.effects.playCleanup = FALSE]

Unmount ==
    /\ mounted
    /\ Apply(unmount(Cur))
    /\ UNCHANGED <<scriptVars, voiceVars, musicVars, pauseVars, homeVars, serverVars>>

\* ---- the premium audio elements

SetAudio(s, i, st) == [s EXCEPT !.audios[i].state = st]

\* onloadeddata: play(), which is either granted or rejected; a rejected
\* play falls back to speech synthesis.
AudioLoaded(i) ==
    /\ i \in DOMAIN audios
    /\ audios[i].state = "loading"
    /\ \E granted \in BOOLEAN :
          LET s == IF granted
                   THEN SetAudio(Cur, i, "playing")
                   ELSE startSpeechSynthesis(SetAudio(Cur, i, "rejected"), audios[i].med)
          IN  Fits(s) /\ Apply(s)
    /\ UNCHANGED <<scriptVars, voiceVars, musicVars, pauseVars, homeVars, serverVars>>

\* onerror: the element failed to load.
AudioError(i) ==
    /\ i \in DOMAIN audios
    /\ audios[i].state = "loading"
    /\ LET s == audioOnError(SetAudio(Cur, i, "error"), audios[i].med)
       IN  Fits(s) /\ Apply(s)
    /\ UNCHANGED <<scriptVars, voiceVars, musicVars, pauseVars, homeVars, serverVars>>

\* onended: setIsPlaying(false) and the completion callback.
audioOnEnded(s, m) ==
    Rendered(onMeditationComplete([s EXCEPT !.isPlaying = FALSE], m.ver))

AudioEnded(i) ==
    /\ i \in DOMAIN audios
    /\ audios[i].state = "playing"
    /\ LET s == audioOnEnded(SetAudio(Cur, i, "ended"), audios[i].med)
       IN  Fits(s) /\ Apply(s)
    /\ UNCHANGED <<scriptVars, voiceVars, musicVars, pauseVars, homeVars, serverVars>>

\* ---- the speech engine

\* The voices arrive: the handler left in onvoiceschanged, if any, speaks.
VoicesChanged ==
    /\ ~speechSynthesis.voices
    /\ LET a == [Cur EXCEPT !.speechSynthesis.voices = TRUE]
           s == IF IsNull(a.speechSynthesis.onvoiceschanged) THEN a
                ELSE setVoiceAndSpeak(a, a.speechSynthesis.onvoiceschanged)
       IN  Fits(s) /\ Apply(s)
    /\ UNCHANGED <<scriptVars, voiceVars, musicVars, pauseVars, homeVars, serverVars>>

\* utterance.onend of the utterance made for meditation ver
utteranceOnEnd(s, ver) ==
    LET a == [s EXCEPT !.isPlaying = FALSE,
                       !.speechSynthRef = NullRef,
                       !.fadeOut = IF s.bgMusicRef.exists THEN @ + 1 ELSE @,
                       !.progress = 0]
    IN  Rendered(onMeditationComplete(ClearProgressTimer(a), ver))

\* The utterance being spoken reaches its end.
UtteranceEnds ==
    /\ Speaking(Cur)
    /\ ~speechSynthesis.paused
    /\ LET ver == Head(speechSynthesis.queue)
           s == utteranceOnEnd([Cur EXCEPT !.speechSynthesis.queue = Tail(@)], ver)
       IN  Fits(s) /\ Apply(s)
    /\ UNCHANGED <<scriptVars, voiceVars, musicVars, pauseVars, homeVars, serverVars>>

\* ---- the intervals

\* The progress interval: elapsed time as a percentage; at 100 it stops.
ProgressTick ==
    /\ progressTimerRef.live
    /\ LET t == progressTimerRef.ticks + 1
           a == IF mounted THEN [Cur EXCEPT !.progress = t] ELSE Cur
           s == IF t >= MaxProgress THEN ClearProgressTimer(a)
                ELSE [a EXCEPT !.progressTimerRef.ticks = t]
       IN  Apply(s)
    /\ UNCHANGED <<scriptVars, voiceVars, musicVars, pauseVars, homeVars, serverVars>>

\* The fade-out interval started by utterance.onend.
FadeTick ==
    /\ fadeOut > 0
    /\ LET s == IF bgMusicRef.exists /\ bgMusicRef.volume > FadeStep
                THEN [Cur EXCEPT !.bgMusicRef.volume = @ - FadeStep]
                ELSE [Cur EXCEPT !.fadeOut = @ - 1,
                                 !.bgMusicRef.playing = FALSE]
       IN  Apply(s)
    /\ UNCHANGED <<scriptVars, voiceVars, musicVars, pauseVars, homeVars, serverVars>>

(***************************************************************************)
(* Initial states and specifications                                       *)
(***************************************************************************)

\* The form's values of a run of the composer: any purpose, any repetition
\* count of the slider (0: not set), affirmations or none, any random stream.
\* ------------------------------------------------------------------
\* The page's request for premium audio (Home.handleGenerate): the flag,
\* the delay, the fetch of the generation route and the reading of its
\* body, with the finally clause that ends every path. The script it
\* composes on the way is HandleGenerateCompose.
\* ------------------------------------------------------------------

\* response.ok
responseOk(status) == status >= 200 /\ status <= 299

\* After `await fetch(...)` resolved: the body is read when the status is
\* ok, and the try block is left otherwise.
afterFetchStuck(status) == IF responseOk(status) THEN "reading" ELSE "fetching"
afterFetch(status) == IF responseOk(status) THEN "reading" ELSE "done"

\* handleGenerate is called: setIsGenerating(true), then the delay.
HandleGenerateBegin ==
    /\ hgPc = "idle"
    /\ isGenerating' = TRUE
    /\ hgPc' = "delay"
    /\ UNCHANGED <<scriptVars, voiceVars, musicVars, pauseVars, serverVars, playerVars>>

\* The delay's timer fires; the script is composed and the request is sent.
HandleGenerateFetch ==
    /\ hgPc = "delay"
    /\ hgPc' = "fetching"
    /\ UNCHANGED isGenerating
    /\ UNCHANGED <<scriptVars, voiceVars, musicVars, pauseVars, serverVars, playerVars>>

\* The request reaches the route.
RequestArrives ==
    /\ hgPc = "fetching"
    /\ Arrive(1)

\* The request does not reach the server (it is down, or the connection
\* fails): fetch rejects, the inner catch logs, finally clears the flag.
ConnectFails ==
    /\ hgPc = "fetching"
    /\ reqs[1].pc = "idle"
    /\ isGenerating' = FALSE
    /\ hgPc' = "done"
    /\ UNCHANGED <<scriptVars, voiceVars, musicVars, pauseVars, serverVars, playerVars>>

\* The status line and headers of the answer arrive: fetch resolves.
FetchResolves ==
    /\ hgPc = "fetching"
    /\ reqs[1].status # 0
    /\ hgPc' = afterFetch(reqs[1].status)
    /\ isGenerating' = (isGenerating /\ afterFetch(reqs[1].status) # "done")
    /\ UNCHANGED <<scriptVars, voiceVars, musicVars, pauseVars, serverVars, playerVars>>

\* The response has ended: response.json() settles (with the meditation or
\* with a SyntaxError that the inner catch logs), and finally clears the flag.
JsonSettles ==
    /\ hgPc = "reading"
    /\ reqs[1].pc = "finished"
    /\ isGenerating' = FALSE
    /\ hgPc' = "done"
    /\ UNCHANGED <<scriptVars, voiceVars, musicVars, pauseVars, serverVars, playerVars>>

\* The connection breaks while the body is read: response.json() rejects.
BodyFails ==
    /\ hgPc = "reading"
    /\ isGenerating' = FALSE
    /\ hgPc' = "done"
    /\ UNCHANGED <<scriptVars, voiceVars, musicVars, pauseVars, serverVars, playerVars>>

\* The page before handleGenerate is called.
HomeInit ==
    /\ isGenerating = FALSE
    /\ hgPc = "idle"
ScriptInputs ==
    /\ scPc = "idle"
    /\ scPurpose \in Purposes
    /\ scRepetition \in 0..MaxRepetition
    /\ scAffirmations \in AffirmationInputs
    /\ scPause \in PauseInputs
    /\ scRandom \in {RandomStream(start, stride) : start \in 0..3, stride \in 0..3}
    /\ meditationScript = <<>>

\* The composer at rest, for the specifications of the other components.
ScriptInit ==
    /\ scPc = "idle"
    /\ scPurpose = "sleep"
    /\ scRepetition = 0
    /\ scAffirmations = ""
    /\ scPause = DefaultPause
    /\ scRandom = RandomStream(0, 0)
    /\ meditationScript = <<>>

VoiceInputs ==
    /\ vrStyle \in StyleInputs
    /\ vrExact \in ExactInputs
    /\ vrResult = "unset"

VoiceInit ==
    /\ vrStyle = <<>>
    /\ vrExact = ""
    /\ vrResult = "unset"

\* ------------------------------------------------------------------
\* Pause insertion (routes.ts, addPausesToText and the route's choice of
\* the pause length). A text is a sequence of characters: a letter, a
\* blank, a period, an exclamation mark.
\* ------------------------------------------------------------------

MaxTextLen == 5

TextChars == {"w", " ", ".", "!"}

TextInputs == UNION { [1..n -> TextChars] : n \in 0..MaxTextLen }

ConfiguredPauses == {DefaultPause, 5}

\* String.prototype.split on a set of one-character separators.
RECURSIVE Split(_, _)
Split(text, seps) ==
    IF \A i \in 1..Len(text) : text[i] \notin seps
    THEN <<text>>
    ELSE LET i == CHOOSE k \in 1..Len(text) :
                      /\ text[k] \in seps
                      /\ \A j \in 1..(k - 1) : text[j] \notin seps
         IN <<SubSeq(text, 1, i - 1)>> \o Split(SubSeq(text, i + 1, Len(text)), seps)

\* String.prototype.trim.
RECURSIVE Trim(_)
Trim(s) ==
    IF s = <<>> THEN s
    ELSE IF Head(s) = " " THEN Trim(Tail(s))
    ELSE IF s[Len(s)] = " " THEN Trim(SubSeq(s, 1, Len(s) - 1))
    ELSE s

\* Array.prototype.join.
RECURSIVE Join(_, _)
Join(pieces, sep) ==
    IF pieces = <<>> THEN <<>>
    ELSE IF Len(pieces) = 1 THEN Head(pieces)
    ELSE Head(pieces) \o sep \o Join(Tail(pieces), sep)

\* `<break time="${pauseDuration}s"/>`, one element of the text sent.
pauseMarker(pauseDuration) == "<break time=" \o ToString(pauseDuration) \o "s/>"

NonBlank(sentence) == Len(Trim(sentence)) > 0

addPausesToText(text, pauseDuration) ==
    LET kept == SelectSeq(Split(text, {"."}), NonBlank)
        mapped == [i \in 1..Len(kept) |->
                      Trim(kept[i]) \o <<".">> \o <<pauseMarker(pauseDuration)>>]
    IN Join(mapped, <<" ">>)

\* a || b on numbers, undefined being 0 here.
OrNumber(a, b) == IF a = 0 THEN b ELSE a

\* The pauseDuration of the record the route works with: the stored
\* record's for a known id, createMeditation's default for the placeholder
\* made for a timestamp id.
recordPauseDuration(known, configured) ==
    IF known THEN configured ELSE OrNumber(0, DefaultPause)

\* The request of handleGenerate carries no pauseDuration.
BodyPauseDuration == 0

routePauseDuration(known, configured) ==
    OrNumber(BodyPauseDuration, OrNumber(recordPauseDuration(known, configured), 2))

NoPauseOut == [sent |-> FALSE, text |-> <<>>]

\* POST /api/meditations/generate-audio, as far as the text sent to the
\* provider goes.
GenerateAudioText ==
    /\ ~ptOut.sent
    /\ ptOut' = [sent |-> TRUE,
                 text |-> addPausesToText(ptText, routePauseDuration(ptKnown, ptConfigured))]
    /\ UNCHANGED <<ptText, ptConfigured, ptKnown>>
    /\ UNCHANGED <<scriptVars, voiceVars, musicVars, homeVars, serverVars, playerVars>>

TextPauseInputs ==
    /\ ptText \in TextInputs
    /\ ptConfigured \in ConfiguredPauses
    /\ ptKnown \in BOOLEAN
    /\ ptOut = NoPauseOut

PauseInit ==
    /\ ptText = <<>>
    /\ ptConfigured = DefaultPause
    /\ ptKnown = TRUE
    /\ ptOut = NoPauseOut
MusicInputs ==
    /\ muId \in MusicIds
    /\ muServer = "unset"
    /\ muHowl = "unset"

MusicInit ==
    /\ muId = "none"
    /\ muServer = "unset"
    /\ muHowl = "unset"

\* The process before its start-up code has run, in any environment: the
\* persistent mount available or not, the roots there or not (the workspace
\* root with its bundled file), the key absent, empty, blank or set.
ServerInputs ==
    /\ srvUp = FALSE
    /\ primaryAvailable \in BOOLEAN
    /\ dirs \in SUBSET {AUDIO_DIR, FallbackDir}
    /\ (AUDIO_DIR \in dirs) => primaryAvailable
    /\ files = IF FallbackDir \in dirs
               THEN [k \in {<<FallbackDir, BundledName>>} |-> "bundled"]
               ELSE <<>>
    /\ apiKey \in {"absent", "empty", "blank", "valid"}
    /\ now = 0
    /\ store = [k \in {1} |-> "none"]
    /\ reqs = [r \in Reqs |-> NoReq]
    /\ served = NotServed

\* The server at rest, for the specifications of the other components.
ServerInit ==
    /\ srvUp = FALSE
    /\ primaryAvailable = TRUE
    /\ dirs = {}
    /\ files = <<>>
    /\ apiKey = "valid"
    /\ now = 0
    /\ store = [k \in {1} |-> "none"]
    /\ reqs = [r \in Reqs |-> NoReq]
    /\ served = NotServed

\* The player after its first render without a meditation; the voices of the
\* speech engine are loaded or still to come.
PlayerBase ==
    /\ mounted = TRUE
    /\ meditation = NullMeditation
    /\ isPlaying = FALSE
    /\ showPostMoodCheckIn = FALSE
    /\ staleCompletions = 0
    /\ audioReady = FALSE
    /\ generationStatus = "pending"
    /\ duration = 0
    /\ progress = 0
    /\ speechSynthRef = NullRef
    /\ progressTimerRef = NullInterval
    /\ bgMusicRef = NoMusic
    /\ effects = [medDeps |-> NullMeditation,
                  playDeps |-> <<FALSE, NullMeditation, 0>>,
                  medCleanup |-> FALSE, musicCleanup |-> FALSE,
                  playCleanup |-> FALSE]
    /\ audios = <<>>
    /\ fadeOut = 0

NoSpeech ==
    [queue |-> <<>>, paused |-> FALSE, voices |-> FALSE,
     onvoiceschanged |-> NullMeditation]

PlayerInputs ==
    /\ PlayerBase
    /\ \E v \in BOOLEAN :
          speechSynthesis = [NoSpeech EXCEPT !.voices = v]

PlayerInit ==
    /\ PlayerBase
    /\ speechSynthesis = [NoSpeech EXCEPT !.voices = TRUE]

InitScript == ScriptInputs /\ VoiceInit /\ MusicInit /\ PauseInit /\ HomeInit /\ ServerInit /\ PlayerInit

NextScript == HandleGenerateCompose

SpecScript == InitScript /\ [][NextScript]_vars

InitVoice == ScriptInit /\ VoiceInputs /\ MusicInit /\ PauseInit /\ HomeInit /\ ServerInit /\ PlayerInit

NextVoice == GetVoiceIdCall

SpecVoice == InitVoice /\ [][NextVoice]_vars

InitMusic == ScriptInit /\ VoiceInit /\ MusicInputs /\ PauseInit /\ HomeInit /\ ServerInit /\ PlayerInit

NextMusic ==
    \/ GetMusicUrlCall
    \/ BackgroundMusicMount

SpecMusic == InitMusic /\ [][NextMusic]_vars

InitPause == ScriptInit /\ VoiceInit /\ MusicInit /\ TextPauseInputs /\ HomeInit /\ ServerInit /\ PlayerInit

NextPause == GenerateAudioText

SpecPause == InitPause /\ [][NextPause]_vars

InitServer == ScriptInit /\ VoiceInit /\ MusicInit /\ PauseInit /\ HomeInit /\ ServerInputs /\ PlayerInit

NextServer ==
    \/ Startup
    \/ \E r \in Reqs : Arrive(r)
    \/ \E r \in Reqs : GenRequest(r)
    \/ \E r \in Reqs : ProviderResponds(r)
    \/ \E r \in Reqs : ProviderBody(r)
    \/ \E r \in Reqs : NetworkError(r)
    \/ \E r \in Reqs : AbortTimerFires(r)
    \/ \E r \in Reqs : RaceTimeoutFires(r)
    \/ Tick

SpecServer == InitServer /\ [][NextServer]_vars

\* The server with its event loop running: a timer that is due fires, and
\* time passes otherwise. Nothing is assumed of the provider or of the network.
TimerFires == \E r \in Reqs : AbortTimerFires(r) \/ RaceTimeoutFires(r)

SpecServerLive == SpecServer /\ WF_vars(Tick \/ TimerFires)

\* The asset store on its own: one generation saving its audio, and the
\* middleware serving names.
NextStore ==
    \/ Startup
    \/ Arrive(1)
    \/ GenRequest(1)
    \/ ProviderResponds(1)
    \/ ProviderBody(1)
    \/ NetworkError(1)
    \/ AbortTimerFires(1)
    \/ RaceTimeoutFires(1)
    \/ Tick
    \/ ServeAudio

SpecStore == InitServer /\ [][NextStore]_vars

\* The generation route with a client that repeats its request.
NextCache ==
    \/ NextServer
    \/ \E r \in Reqs : Again(r)

SpecCache == InitServer /\ [][NextCache]_vars

\* The page's handleGenerate against the server: the request arrives only
\* once it was sent.
NextGenerate ==
    \/ HandleGenerateBegin
    \/ HandleGenerateFetch
    \/ RequestArrives
    \/ ConnectFails
    \/ FetchResolves
    \/ JsonSettles
    \/ BodyFails
    \/ Startup
    \/ GenRequest(1)
    \/ ProviderResponds(1)
    \/ ProviderBody(1)
    \/ NetworkError(1)
    \/ AbortTimerFires(1)
    \/ RaceTimeoutFires(1)
    \/ Tick

\* The browser runs the handler's continuations and its timer, a request
\* sent is delivered or fails, and the server's event loop runs. Nothing is
\* assumed of the provider.
SpecGenerate ==
    /\ InitServer
    /\ [][NextGenerate]_vars
    /\ WF_vars(HandleGenerateFetch)
    /\ WF_vars(RequestArrives \/ ConnectFails)
    /\ WF_vars(FetchResolves)
    /\ WF_vars(JsonSettles)
    /\ WF_vars(Tick \/ AbortTimerFires(1) \/ RaceTimeoutFires(1))
InitPlayer == ScriptInit /\ VoiceInit /\ MusicInit /\ PauseInit /\ HomeInit /\ ServerInit /\ PlayerInputs

NextPlayer ==
    \/ TogglePlayPause
    \/ SetMeditation
    \/ Unmount
    \/ \E i \in 1..MaxAudio : AudioLoaded(i)
    \/ \E i \in 1..MaxAudio : AudioError(i)
    \/ \E i \in 1..MaxAudio : AudioEnded(i)
    \/ VoicesChanged
    \/ UtteranceEnds
    \/ ProgressTick
    \/ FadeTick

SpecPlayer == InitPlayer /\ [][NextPlayer]_vars

\* The browser delivers voiceschanged once the voices are loaded, and runs
\* the callback of a live interval.
SpecPlayerLive == SpecPlayer /\ WF_vars(VoicesChanged) /\ WF_vars(FadeTick)

(***************************************************************************)
(* Claims                                                                  *)
(***************************************************************************)

\* How often a segment satisfying a test occurs in the script.
CountKind(script, kind) ==
    Cardinality({p \in 1..Len(script) : script[p].kind = kind})
CountSeg(script, seg) ==
    Cardinality({p \in 1..Len(script) : script[p] = seg})

\* C1: for every repetitionCount in 1..20 and every purpose, the composed
\* script holds the affirmation block exactly repetitionCount times (one
\* affirmation section per repetition and, when the user gave affirmations,
\* their text once per repetition), and every breathing and every
\* visualization segment exactly once.
C1_SegmentCounts ==
    (scPc = "composed" /\ scRepetition \in 1..MaxRepetition) =>
        /\ CountKind(meditationScript, "affirmationSection") = scRepetition
        /\ scAffirmations # "" =>
               CountSeg(meditationScript, AffirmationText(scAffirmations)) = scRepetition
        /\ \A k \in 1..4 : CountSeg(meditationScript, Seg("breathing", "common", k)) = 1
        /\ \A k \in 1..3 :
               CountSeg(meditationScript, Seg("visualization", Family(scPurpose), k)) = 1
        /\ CountKind(meditationScript, "breathing") = 4
        /\ CountKind(meditationScript, "visualization") = 3

C1_Witness ==
    /\ scPc = "composed"
    /\ scRepetition = MaxRepetition
    /\ scPurpose = "focus"
    /\ scAffirmations = "I am calm. I am safe"
    /\ CountKind(meditationScript, "affirmationSection") = 20

\* C2: when the provider credential is absent or empty, synthesis fails at
\* once (the request is never seen waiting for the race, and its failure is
\* the credential) and no request is sent to the provider; a key of blanks
\* sends none either.
C2_NoCallWithoutCredential ==
    \A r \in Reqs :
        /\ apiKey \in {"absent", "empty", "blank"} =>
               (reqs[r].netCalls = 0 /\ reqs[r].net = "none")
        /\ (apiKey \in {"absent", "empty"} /\ reqs[r].status = 202) =>
               /\ reqs[r].pc = "finished"
               /\ reqs[r].gen = "failed"
               /\ reqs[r].cause = "credential"
               /\ reqs[r].finishedAt = reqs[r].acceptedAt
               /\ reqs[r].audioUrl = "none"

C2_Witness ==
    /\ apiKey = "absent"
    /\ reqs[1].pc = "finished"
    /\ reqs[1].cause = "credential"
    /\ reqs[1].chunks = <<"processing", "fallback", "complete">>
    /\ reqs[1].netCalls = 0

\* C3: a request is never left waiting for synthesis longer than the race's
\* timeout: while it waits no more than RaceTimeoutMs have passed since it was
\* accepted, it is answered within that bound, and when the provider never
\* delivered (the fetch was aborted, or the timeout won) the answer is the
\* failure result.
C3_BoundedByTimeout ==
    \A r \in Reqs :
        /\ reqs[r].pc = "racing" => now - reqs[r].acceptedAt <= RaceTimeoutMs
        /\ reqs[r].pc = "finished" =>
               reqs[r].finishedAt - reqs[r].acceptedAt <= RaceTimeoutMs
        /\ (reqs[r].pc = "finished"
              /\ (reqs[r].net = "aborted" \/ reqs[r].settledBy = "timeout")) =>
               /\ reqs[r].audioUrl = "none"
               /\ reqs[r].chunks = <<"processing", "fallback", "complete">>

C3_Witness ==
    /\ reqs[1].pc = "finished"
    /\ reqs[1].net = "aborted"
    /\ reqs[1].cause = "abort"
    /\ reqs[1].finishedAt - reqs[1].acceptedAt = FetchAbortMs
    /\ reqs[1].audioUrl = "none"

\* C4: a load error of the premium element of the session being played
\* (status ready, script present) starts speech synthesis for that session:
\* its utterance is handed to the speech engine at once, or waits for the
\* voices and is handed over when they arrive, unless the user leaves the
\* session first; the session stays playing and ready, and the status is
\* never failed.
PremiumErrorStep(i) ==
    /\ i \in DOMAIN audios
    /\ audios[i].state = "loading"
    /\ i \in DOMAIN audios'
    /\ audios'[i].state = "error"
    /\ mounted /\ isPlaying
    /\ audios[i].med.ver = meditation.ver
    /\ generationStatus = "ready"
    /\ meditation.meditationScript

InQueue(ver) == \E k \in DOMAIN speechSynthesis.queue : speechSynthesis.queue[k] = ver

AwaitsVoices(ver) ==
    /\ ~speechSynthesis.voices
    /\ speechSynthesis.onvoiceschanged.ver = ver
    /\ \E i \in DOMAIN audios :
           audios[i].state = "error" /\ audios[i].med.ver = ver

C4_PremiumErrorFallsBack ==
    /\ [](generationStatus # "failed")
    /\ [][\A i \in 1..MaxAudio :
             PremiumErrorStep(i) =>
                 /\ InQueue(meditation.ver)' \/ AwaitsVoices(meditation.ver)'
                 /\ isPlaying'
                 /\ generationStatus' = "ready"]_vars
    /\ \A ver \in 1..MaxVer :
           AwaitsVoices(ver) ~> (InQueue(ver) \/ ~mounted \/ meditation.ver # ver)

\* C5: within the session on the page at most one voice source is live: the
\* premium elements that are playing and the utterance being spoken number
\* at most one.
LiveVoices(ver) ==
    Cardinality({i \in DOMAIN audios :
                    audios[i].state = "playing" /\ audios[i].med.ver = ver})
    + (IF speechSynthesis.queue # <<>> /\ ~speechSynthesis.paused
          /\ Head(speechSynthesis.queue) = ver
       THEN 1 ELSE 0)

C5_OneVoiceSource ==
    (mounted /\ ~IsNull(meditation)) => LiveVoices(meditation.ver) <= 1

\* C6: once the timeout has decided the race, the provider request of that
\* generation is no longer in flight.
C6_LoserCancelled ==
    \A r \in Reqs :
        reqs[r].settledBy = "timeout" => reqs[r].net \notin {"inflight", "headers"}

\* C7: a session the user has left (the player is off the page, or shows
\* another meditation) has no voice source loading or playing, no utterance
\* in the speech engine and no live progress interval; off the page the music
\* does not play; and no completion is reported for a session already left.
C7_AbandonedSessionQuiet ==
    /\ \A i \in DOMAIN audios :
           Abandoned(Cur, audios[i].med.ver) => audios[i].state # "playing"
    /\ \A k \in DOMAIN speechSynthesis.queue :
           ~Abandoned(Cur, speechSynthesis.queue[k])
    /\ progressTimerRef.live => ~Abandoned(Cur, progressTimerRef.ver)
    /\ ~mounted => ~bgMusicRef.playing
    /\ staleCompletions = 0

\* C8: round trip of the asset store, with the primary root available or not:
\* a generation never fails on storage, and the name of a saved asset
\* resolves to a file holding the bytes saved under that name.
C8_RoundTrip ==
    \A r \in Reqs :
        /\ reqs[r].gen = "failed" => reqs[r].cause # "storage"
        /\ reqs[r].gen = "resolved" =>
               /\ Resolve(AudioName(reqs[r].timestamp)).status = 200
               /\ Resolve(AudioName(reqs[r].timestamp)).body \in
                      {reqs[q].bytes : q \in {p \in Reqs :
                            reqs[p].gen = "resolved"
                            /\ reqs[p].timestamp = reqs[r].timestamp}}

\* C9: when the primary root cannot be created, every save of the process
\* targets the secondary root created at start-up.
C9_FallbackRootUsed ==
    \A r \in Reqs :
        (srvUp /\ ~primaryAvailable /\ reqs[r].outputRoot # "none") =>
            (reqs[r].outputRoot = FallbackDir /\ FallbackDir \in dirs)

\* C10: the voice resolver is total: for any non-empty voice style it returns
\* a valid provider voice id (an id of the table).
C10_ResolverTotal ==
    (vrResult # "unset" /\ vrStyle # <<>>) => vrResult \in ValidVoiceIds

\* C11: the voice sent to the provider follows the precedence: the exact
\* voice of the request when it is an id of the table, else the table's entry
\* for the style when the style is one of its keys, else the entry the
\* substring heuristic names, else the default.
HeuristicKey(style) ==
    LET tone == IF Includes(style, Str_calm) THEN Str_calm
                ELSE IF Includes(style, Str_whisper) THEN Str_whisper
                ELSE IF Includes(style, Str_motivational) THEN Str_motivational
                ELSE Str_calm
    IN  IF Includes(style, Str_female) THEN tone \o <<"-">> \o Str_female
        ELSE IF Includes(style, Str_male) THEN tone \o <<"-">> \o Str_male
        ELSE Key_default

TableEntry(key) == (CHOOSE e \in voiceIdMapping : e[1] = key)[2]

C11_Precedence ==
    vrResult # "unset" =>
        vrResult = IF vrExact \in ValidVoiceIds THEN vrExact
                   ELSE IF vrStyle \in OwnKeys THEN TableEntry(vrStyle)
                   ELSE TableEntry(HeuristicKey(vrStyle))

\* C12: a generation sends at most one POST to the provider, and exactly one
\* once it has reached the provider; after an answer that is not 2xx the
\* generation has failed, with that single request sent and no audio URL.
C12_SinglePost ==
    \A r \in Reqs :
        /\ reqs[r].netCalls <= 1
        /\ reqs[r].net # "none" => reqs[r].netCalls = 1
        /\ reqs[r].cause = "provider" =>
               /\ reqs[r].gen = "failed"
               /\ reqs[r].net = "complete"
               /\ reqs[r].netCalls = 1
               /\ reqs[r].audioUrl = "none"
               /\ reqs[r].bytes = "none"

C12_Witness ==
    /\ reqs[1].pc = "finished"
    /\ reqs[1].cause = "provider"
    /\ reqs[1].settledBy = "generation"
    /\ reqs[1].netCalls = 1
    /\ reqs[1].chunks = <<"processing", "fallback", "complete">>

C14_AssetAlwaysServed ==
    served # NotServed =>
        /\ served.status = 200
        /\ served.root \in {AUDIO_DIR, FallbackDir, "placeholder"}
        /\ served.body # "none"

\* C15: while the session shown has the music id "none", the music element
\* has no source and does not play.
C15_NoMusicForNone ==
    (~IsNull(meditation) /\ meditation.backgroundMusic = "none") =>
        /\ ~bgMusicRef.playing
        /\ bgMusicRef.src = ""

\* C18: resolving a music id always yields a playable URL, a URL of the
\* resolver's table, and a music id the table does not know resolves to the
\* table's gentle-piano track.
LibraryUrls == {e[2] : e \in musicLibrary}
ComponentUrls == {e[2] : e \in musicUrls}

C18_UnknownMusicDefaults ==
    /\ muServer # "unset" =>
           /\ muServer \in LibraryUrls
           /\ muId \notin {e[1] : e \in musicLibrary} =>
                  muServer = Member(musicLibrary, "gentle-piano")
    /\ muHowl \notin {"unset", NoHowl} =>
           /\ muHowl \in ComponentUrls
           /\ muId \notin {e[1] : e \in musicUrls} =>
                  muHowl = Member(musicUrls, "gentle-piano")

\* C16: a generation request that passed validation and the lookup of its
\* record is answered with the status 202, and its response eventually ends
\* with the "complete" notification, whether the synthesis succeeds, fails or
\* is outrun by the timeout.
Completed(r) ==
    /\ reqs[r].pc = "finished"
    /\ reqs[r].chunks # <<>>
    /\ reqs[r].chunks[Len(reqs[r].chunks)] = "complete"

C16_AcceptedCompletes ==
    /\ [](\A r \in Reqs : reqs[r].pc \in {"racing", "finished"} => reqs[r].status = 202)
    /\ \A r \in Reqs : (reqs[r].pc = "racing") ~> Completed(r)

C16_Witness ==
    /\ reqs[1].status = 202
    /\ reqs[1].settledBy = "generation"
    /\ reqs[1].gen = "resolved"
    /\ reqs[1].audioUrl # "none"
    /\ reqs[1].chunks = <<"processing", "complete">>

\* C17: for the purpose sleep, three repetitions and a pause of 2 seconds,
\* the composed script holds the ending of the sleep family exactly once (and
\* last), the affirmation content exactly 3 times, a pause narration between
\* every two consecutive occurrences of it, and that narration has the
\* configured length.
Occurrences(script, seg) == {p \in 1..Len(script) : script[p] = seg}

C17_SleepScenario ==
    (scPc = "composed" /\ scPurpose = "sleep" /\ scRepetition = 3
        /\ scPause = 2 /\ scAffirmations # "") =>
        LET text == AffirmationText(scAffirmations)
            occ  == Occurrences(meditationScript, text)
        IN  /\ CountSeg(meditationScript, Seg("ending", "sleep", 1)) = 1
            /\ meditationScript[Len(meditationScript)] = Seg("ending", "sleep", 1)
            /\ Cardinality(occ) = 3
            /\ CountKind(meditationScript, "affirmationSection") = 3
            /\ \A p, q \in occ :
                   p < q => \E k \in (p + 1)..(q - 1) :
                                meditationScript[k] = PauseNarration
            /\ CountSeg(meditationScript, PauseNarration) = 2
            /\ PauseNarrationCounts = scPause

\* C19: a generation request for a meditation whose audio was already
\* synthesized and stored sends no request to the provider.
C19_CachedNotResynthesized ==
    \A r \in Reqs : reqs[r].foundUrl # "none" => reqs[r].netCalls = 0

\* C20: when the voice source of the session on the page reaches its natural
\* end, a premium element or an utterance, the session completes: playback
\* is off, the completion callback has run, and music that was playing is
\* not cut off but fades, the fade ending with the music silent.
EndsActiveSource ==
    \/ \E i \in 1..MaxAudio :
           AudioEnded(i) /\ mounted /\ audios[i].med.ver = meditation.ver
    \/ UtteranceEnds /\ mounted /\ Head(speechSynthesis.queue) = meditation.ver

C20_EndFadesAndCompletes ==
    /\ [][EndsActiveSource =>
             /\ ~isPlaying'
             /\ showPostMoodCheckIn'
             /\ bgMusicRef.playing => (bgMusicRef'.playing /\ fadeOut' > 0)]_vars
    /\ (fadeOut > 0) ~> ~bgMusicRef.playing

\* C21: the music plays while a voice source of the session plays, premium
\* or synthetic, and a session that is paused or completed ends up with its
\* music not playing (unless playback is started again).
C21_MusicFollowsPlayback ==
    /\ [](\A i \in DOMAIN audios :
             (mounted /\ isPlaying /\ audios[i].state = "playing"
                 /\ audios[i].med.ver = meditation.ver
                 /\ meditation.backgroundMusic # "none") => bgMusicRef.playing)
    /\ (mounted /\ ~isPlaying /\ bgMusicRef.playing)
           ~> (~bgMusicRef.playing \/ isPlaying)

\* C22: a pause during playback pauses the voice source of the session (the
\* engine for its utterance, the element for its premium audio) and keeps
\* it; the next play resumes the paused utterance and makes no new source.
C22_PauseResumeSameSource ==
    [][/\ (TogglePlayPause /\ isPlaying /\ ~isPlaying') =>
              /\ \A i \in DOMAIN audios :
                     (audios[i].state = "playing"
                         /\ audios[i].med.ver = meditation.ver) =>
                         audios'[i].state = "paused"
              /\ (Speaking(Cur) /\ Head(speechSynthesis.queue) = meditation.ver) =>
                     /\ speechSynthesis'.queue = speechSynthesis.queue
                     /\ speechSynthesis'.paused
       /\ (TogglePlayPause /\ ~isPlaying /\ isPlaying'
              /\ Speaking(Cur) /\ speechSynthesis.paused
              /\ Head(speechSynthesis.queue) = meditation.ver) =>
              /\ speechSynthesis'.queue = speechSynthesis.queue
              /\ ~speechSynthesis'.paused
              /\ audios' = audios]_vars

\* C23: the request log is best-effort: a generation that has passed the
\* checks of its key and named its files sends its request to the provider,
\* whether the log could be written or not, and never fails on the log.
C23_LogBestEffort ==
    \A r \in Reqs :
        reqs[r].timestamp # NoTimer =>
            /\ reqs[r].netCalls = 1
            /\ reqs[r].net # "none"

Terminators == {".", "!"}

\* The sentences of a text: its non-blank stretches between terminators.
SentenceCount(text) == Len(SelectSeq(Split(text, Terminators), NonBlank))

MarkerPositions(out) == {i \in 1..Len(out) : out[i] \notin TextChars}

\* C25: the text sent to the provider holds exactly one pause marker per
\* sentence of the script, each carrying the pause length configured for
\* the meditation.
C25_OneMarkerPerSentence ==
    ptOut.sent =>
        /\ Cardinality(MarkerPositions(ptOut.text)) = SentenceCount(ptText)
        /\ \A i \in MarkerPositions(ptOut.text) : ptOut.text[i] = pauseMarker(ptConfigured)

\* The same for scripts that end every sentence with a period and whose
\* meditation is a stored record: there the statement holds.
C25_PeriodScriptsOnly ==
    (ptOut.sent /\ ptKnown /\ \A i \in 1..Len(ptText) : ptText[i] # "!") =>
        /\ Cardinality(MarkerPositions(ptOut.text)) = SentenceCount(ptText)
        /\ \A i \in MarkerPositions(ptOut.text) : ptOut.text[i] = pauseMarker(ptConfigured)

\* ------------------------------------------------------------------
\* C26
\* ------------------------------------------------------------------

\* C26: the session is ready only while a premium result with a URL under
\* /api/audio/ or the script text is available.
C26_ReadyOnlyWhenAvailable ==
    (mounted /\ generationStatus = "ready") =>
        (IsPremium(meditation) \/ meditation.meditationScript)

\* With any non-empty audioUrl counted as available the statement holds.
C26_ReadyOnlyWithAnyUrl ==
    (mounted /\ generationStatus = "ready") =>
        (meditation.audioUrl # "none" \/ meditation.meditationScript)

\* ------------------------------------------------------------------
\* C27
\* ------------------------------------------------------------------

\* C27: a stored audioUrl changes only in the step in which a request's
\* generation wins the race having written its asset, and then to the name
\* of that asset, which exists under the request's output root; a failed or
\* timed-out generation leaves every stored audioUrl as it was.
C27_UrlOnlyAfterVerifiedWrite ==
    [][\A k \in DOMAIN store \cap DOMAIN store' :
          store'[k] # store[k] =>
              \E r \in Reqs :
                  /\ reqs[r].pc = "racing"
                  /\ reqs'[r].pc = "finished"
                  /\ reqs'[r].settledBy = "generation"
                  /\ reqs'[r].gen = "resolved"
                  /\ reqs'[r].medId = k
                  /\ store'[k] = AudioName(reqs'[r].timestamp)
                  /\ <<reqs'[r].outputRoot, store'[k]>> \in DOMAIN files']_vars

\* A generation has won its race and its asset's name is stored, while
\* requests that failed or timed out exist in other behaviours.
C27_Witness ==
    \E r \in Reqs :
        /\ reqs[r].pc = "finished"
        /\ reqs[r].settledBy = "generation"
        /\ reqs[r].audioUrl # "none"
        /\ store[reqs[r].medId] = reqs[r].audioUrl
        /\ <<reqs[r].outputRoot, reqs[r].audioUrl>> \in DOMAIN files

\* A request was settled by the timeout and its generation resolved later:
\* the stored audioUrl is still absent.
C27_LateWitness ==
    \E r \in Reqs :
        /\ reqs[r].settledBy = "timeout"
        /\ reqs[r].gen = "resolved"
        /\ store[reqs[r].medId] = "none"

\* ------------------------------------------------------------------
\* C28
\* ------------------------------------------------------------------

\* C28: a tick of a fade-out left over from a completed playback neither
\* lowers the volume of nor pauses the music of a playback that has started
\* since and is under way.
C28_FadeSparesNewPlayback ==
    [][(/\ FadeTick
        /\ mounted
        /\ isPlaying
        /\ speechSynthRef.kind = "utterance"
        /\ speechSynthRef.id = meditation.ver
        /\ Head(speechSynthesis.queue) = meditation.ver
        /\ bgMusicRef.playing) =>
           /\ bgMusicRef'.playing
           /\ bgMusicRef'.volume = bgMusicRef.volume]_vars

\* ------------------------------------------------------------------
\* C29
\* ------------------------------------------------------------------

\* C29: once handleGenerate has set the generating flag, the flag returns
\* to false, whatever the answer of the generation route.
C29_FlagReturns == isGenerating ~> ~isGenerating

\* The flag was cleared after the route had answered 202 and ended its
\* response.
C29_Witness ==
    /\ hgPc = "done"
    /\ ~isGenerating
    /\ reqs[1].pc = "finished"
    /\ reqs[1].status = 202

\* The flag was cleared after an error status.
C29_ErrorWitness ==
    /\ hgPc = "done"
    /\ ~isGenerating
    /\ reqs[1].pc = "rejected"

\* ------------------------------------------------------------------
\* C30
\* ------------------------------------------------------------------

NotReady == ~audioReady \/ generationStatus # "ready"

\* A step that starts something: the playing flag goes up, an utterance is
\* queued, a premium element is created, or the music starts.
SourceStarts ==
    \/ ~isPlaying /\ isPlaying'
    \/ Len(speechSynthesis'.queue) > Len(speechSynthesis.queue)
    \/ Len(audios') > Len(audios)
    \/ ~bgMusicRef.playing /\ bgMusicRef'.playing

\* The toggle's half of C30: a play toggle while the session is not ready
\* leaves the playing flag as it is and activates no voice or music source.
C30_ToggleNeedsReady ==
    [][(TogglePlayPause /\ NotReady) =>
           /\ isPlaying' = isPlaying
           /\ ~SourceStarts
           /\ speechSynthRef' = speechSynthRef]_vars

\* The play button can be pressed on a session that is not ready.
C30_NotReadyReached ==
    /\ mounted
    /\ ~IsNull(meditation)
    /\ NotReady
    /\ ~isPlaying
    /\ ENABLED TogglePlayPause

\* C30: playback never starts unless the session is ready and the audio
\* is marked ready: whatever the step, the playing flag goes up and a voice
\* or music source is activated only with the session ready after it.
C30_StartsOnlyWhenReady ==
    [][SourceStarts => (generationStatus' = "ready" /\ audioReady')]_vars

====
